---------------------------- MODULE Spec2Model ----------------------------
(* Model of src/ezynotify.py: the monitoring cycle (main), the per-row    *)
(* processing (process_row), the sentence/word diff (get_diff over        *)
(* difflib.ndiff) and the message formatting.                             *)
(*                                                                        *)
(* Strings are TLA+ strings; Len, \o and SubSeq are Python's len, + and   *)
(* slicing.  Characters outside ASCII are written as one ASCII stand-in   *)
(* per Python code point, so that Len agrees with Python's len: "@" for   *)
(* each emoji and for the bullet ("%" for the red circle), "@@" for the   *)
(* two code points of the information sign with its variation selector.   *)
EXTENDS Integers, Sequences, FiniteSets, TLC

(***************************************************************************)
(* Bounds of the model.                                                    *)
(***************************************************************************)
MaxCycles == 2

LongUrlLen == 4100

(* direct calls: texts of up to MaxSentences sentences, and renderings    *)
(* whose length is within Slack of the limit of 4096                      *)
MaxSentences == 2

Slack == 1

(***************************************************************************)
(* Python string primitives.                                               *)
(***************************************************************************)
Char(s, i) == SubSeq(s, i, i)

(* the element of a one-element set: The({e(x) : x \in {v}}) is e(v) with  *)
(* v evaluated once                                                        *)
The(S) == CHOOSE x \in S : TRUE

Slice(s, lo, hi) == IF hi <= lo THEN "" ELSE SubSeq(s, lo + 1, hi)

Upper == "ABCDEFGHIJKLMNOPQRSTUVWXYZ"

Lowercase == "abcdefghijklmnopqrstuvwxyz"

LowerChar(c) ==
    IF \E i \in 1..Len(Upper) : Char(Upper, i) = c
    THEN Char(Lowercase, CHOOSE i \in 1..Len(Upper) : Char(Upper, i) = c)
    ELSE c

RECURSIVE Lower(_)
Lower(s) == IF s = "" THEN "" ELSE LowerChar(Char(s, 1)) \o Lower(Slice(s, 1, Len(s)))

Contains(k, t) == \E i \in 0..(Len(t) - Len(k)) : Slice(t, i, i + Len(k)) = k

IsSpace(c) == c \in {" ", "\n", "\t"}

RECURSIVE LStrip(_)
LStrip(s) == IF s # "" /\ IsSpace(Char(s, 1)) THEN LStrip(Slice(s, 1, Len(s))) ELSE s

RECURSIVE RStrip(_)
RStrip(s) == IF s # "" /\ IsSpace(Char(s, Len(s))) THEN RStrip(Slice(s, 0, Len(s) - 1)) ELSE s

Strip(s) == RStrip(LStrip(s))

RECURSIVE Rep(_, _)
Rep(s, n) ==
    IF n = 0 THEN ""
    ELSE IF n % 2 = 1 THEN s \o Rep(s, n - 1)
    ELSE LET h == Rep(s, n \div 2) IN h \o h

RECURSIVE Join(_, _)
Join(sep, ws) ==
    IF ws = <<>> THEN ""
    ELSE IF Len(ws) = 1 THEN ws[1]
    ELSE ws[1] \o sep \o Join(sep, Tail(ws))

(* str.split(): the maximal runs of non-whitespace characters.  i is the  *)
(* scan position, from the start of the word being read (0-based).        *)
RECURSIVE SplitFrom(_, _, _)
SplitFrom(s, from, i) ==
    IF i >= Len(s)
    THEN IF from < i THEN <<Slice(s, from, i)>> ELSE <<>>
    ELSE IF IsSpace(Char(s, i + 1))
         THEN (IF from < i THEN <<Slice(s, from, i)>> ELSE <<>>) \o SplitFrom(s, i + 1, i + 1)
         ELSE SplitFrom(s, from, i + 1)

SplitWords(s) == SplitFrom(s, 0, 0)

(* re.split(r'(?<=[.!?])\s+', text): a separator is a whole run of        *)
(* whitespace that directly follows one of . ! ?                          *)
IsTerminal(c) == c \in {".", "!", "?"}

RECURSIVE SpaceRunEnd(_, _)
SpaceRunEnd(s, i) ==
    IF i < Len(s) /\ IsSpace(Char(s, i + 1)) THEN SpaceRunEnd(s, i + 1) ELSE i

RECURSIVE ReSplitFrom(_, _, _)
ReSplitFrom(s, from, i) ==
    IF i >= Len(s) THEN <<Slice(s, from, Len(s))>>
    ELSE IF i > 0 /\ IsTerminal(Char(s, i)) /\ IsSpace(Char(s, i + 1))
         THEN LET e == SpaceRunEnd(s, i)
              IN <<Slice(s, from, i)>> \o ReSplitFrom(s, e, e)
         ELSE ReSplitFrom(s, from, i + 1)

RECURSIVE DropEmpty(_)
DropEmpty(ps) ==
    IF ps = <<>> THEN <<>>
    ELSE IF Strip(ps[1]) # "" THEN <<Strip(ps[1])>> \o DropEmpty(Tail(ps))
    ELSE DropEmpty(Tail(ps))

split_sentences(text) == DropEmpty(ReSplitFrom(text, 0, 0))

(***************************************************************************)
(* difflib: SequenceMatcher and Differ (ndiff), on sequences of strings.   *)
(* Indices are Python's: 0-based, ranges half open; x[i] is x[i + 1] here. *)
(* No element is junk: words hold no blank, and the automatic junk         *)
(* heuristic needs 200 elements.                                           *)
(***************************************************************************)
ToChars(w) == [i \in 1..Len(w) |-> Char(w, i)]

RECURSIVE MatchLen(_, _, _, _, _, _)
MatchLen(a, b, i, j, ahi, bhi) ==
    IF i < ahi /\ j < bhi /\ a[i + 1] = b[j + 1]
    THEN 1 + MatchLen(a, b, i + 1, j + 1, ahi, bhi)
    ELSE 0

(* The longest block a[i:i+k] = b[j:j+k] in the ranges; of those the one   *)
(* that starts earliest in a, and of those the one earliest in b.          *)
find_longest_match(a, b, alo, ahi, blo, bhi) ==
    LET cand == {p \in (alo..(ahi - 1)) \X (blo..(bhi - 1)) : a[p[1] + 1] = b[p[2] + 1]}
        size(p) == MatchLen(a, b, p[1], p[2], ahi, bhi)
        first(p, r) == \/ size(p) > size(r)
                       \/ /\ size(p) = size(r)
                          /\ \/ p[1] < r[1]
                             \/ p[1] = r[1] /\ p[2] <= r[2]
    IN IF cand = {} THEN <<alo, blo, 0>>
       ELSE LET best == CHOOSE p \in cand : \A r \in cand : first(p, r)
            IN <<best[1], best[2], size(best)>>

RECURSIVE get_matching_blocks(_, _, _, _, _, _)
RECURSIVE BlocksAround(_, _, _, _, _, _, _)
(* the blocks left of the longest match m = <<i, j, k>>, m, the blocks right of it *)
BlocksAround(a, b, alo, ahi, blo, bhi, m) ==
    IF m[3] = 0 THEN <<>>
    ELSE (IF alo < m[1] /\ blo < m[2]
          THEN get_matching_blocks(a, b, alo, m[1], blo, m[2]) ELSE <<>>)
         \o <<m>>
         \o (IF m[1] + m[3] < ahi /\ m[2] + m[3] < bhi
             THEN get_matching_blocks(a, b, m[1] + m[3], ahi, m[2] + m[3], bhi) ELSE <<>>)

get_matching_blocks(a, b, alo, ahi, blo, bhi) ==
    BlocksAround(a, b, alo, ahi, blo, bhi, find_longest_match(a, b, alo, ahi, blo, bhi))

RECURSIVE OpcodesFrom(_, _, _)
OpcodesFrom(blocks, i, j) ==
    IF blocks = <<>> THEN <<>>
    ELSE LET ai == blocks[1][1]
             bj == blocks[1][2]
             size == blocks[1][3]
             tag == IF i < ai /\ j < bj THEN "replace"
                    ELSE IF i < ai THEN "delete"
                    ELSE IF j < bj THEN "insert"
                    ELSE ""
         IN (IF tag # "" THEN <<<<tag, i, ai, j, bj>>>> ELSE <<>>)
            \o (IF size > 0 THEN <<<<"equal", ai, ai + size, bj, bj + size>>>> ELSE <<>>)
            \o OpcodesFrom(Tail(blocks), ai + size, bj + size)

get_opcodes(a, b) ==
    OpcodesFrom(get_matching_blocks(a, b, 0, Len(a), 0, Len(b)) \o <<<<Len(a), Len(b), 0>>>>, 0, 0)

RECURSIVE SumSizes(_)
SumSizes(blocks) == IF blocks = <<>> THEN 0 ELSE blocks[1][3] + SumSizes(Tail(blocks))

(* ratio() = 2.0 * M / T, kept as the pair <<M, T>> of the two words.      *)
Matches(x, y) ==
    SumSizes(get_matching_blocks(ToChars(x), ToChars(y), 0, Len(x), 0, Len(y)))

Dump(tag, x, lo, hi) == [n \in 1..(hi - lo) |-> tag \o " " \o x[lo + n]]

_plain_replace(a, alo, ahi, b, blo, bhi) ==
    IF bhi - blo < ahi - alo
    THEN Dump("+", b, blo, bhi) \o Dump("-", a, alo, ahi)
    ELSE Dump("-", a, alo, ahi) \o Dump("+", b, blo, bhi)

RECURSIVE TagsFrom(_, _)
TagsFrom(ops, side) ==
    IF ops = <<>> THEN ""
    ELSE LET op == ops[1]
             la == op[3] - op[2]
             lb == op[5] - op[4]
             t == IF op[1] = "replace" THEN Rep("^", IF side = "a" THEN la ELSE lb)
                  ELSE IF op[1] = "delete" THEN (IF side = "a" THEN Rep("-", la) ELSE "")
                  ELSE IF op[1] = "insert" THEN (IF side = "a" THEN "" ELSE Rep("+", lb))
                  ELSE Rep(" ", IF side = "a" THEN la ELSE lb)
         IN t \o TagsFrom(Tail(ops), side)

_qformat(aline, bline, atags, btags) ==
    <<"- " \o aline>>
    \o (IF RStrip(atags) # "" THEN <<"? " \o RStrip(atags) \o "\n">> ELSE <<>>)
    \o <<"+ " \o bline>>
    \o (IF RStrip(btags) # "" THEN <<"? " \o RStrip(btags) \o "\n">> ELSE <<>>)

(* _fancy_replace, in steps.  M[p] is the number of matching characters *)
(* of the pair p = <<i, j>> of a[i] and b[j], so ratio() = 2.0 * M / T.  *)
PairLen(a, b, p) == Len(a[p[1] + 1]) + Len(b[p[2] + 1])

PairMatches(a, alo, ahi, b, blo, bhi) ==
    [p \in (alo..(ahi - 1)) \X (blo..(bhi - 1)) |-> Matches(a[p[1] + 1], b[p[2] + 1])]

(* the loops run j outermost and keep the first pair of a ratio *)
Earlier(p, r) == p[2] < r[2] \/ (p[2] = r[2] /\ p[1] <= r[1])

BetterPair(a, b, M, p, r) ==
    \/ M[p] * PairLen(a, b, r) > M[r] * PairLen(a, b, p)
    \/ M[p] * PairLen(a, b, r) = M[r] * PairLen(a, b, p) /\ Earlier(p, r)

(* the pairs of different lines whose ratio exceeds the initial best_ratio 0.74 *)
ClosePairs(a, b, M) ==
    {p \in DOMAIN M : a[p[1] + 1] # b[p[2] + 1] /\ 200 * M[p] > 74 * PairLen(a, b, p)}

EqualPairs(a, b, M) == {p \in DOMAIN M : a[p[1] + 1] = b[p[2] + 1]}

(* the pair the search ends on, <<i, j, identical>>, or <<>> for none:    *)
(* the best close pair when its ratio reaches the cutoff 0.75, else the   *)
(* first identical pair                                                   *)
SyncPoint(a, b, M, close, equal) ==
    IF close # {} /\ \E p \in close : 8 * M[p] >= 3 * PairLen(a, b, p)
    THEN <<CHOOSE p \in close : \A r \in close : BetterPair(a, b, M, p, r), FALSE>>
    ELSE IF equal # {}
    THEN <<CHOOSE p \in equal : \A r \in equal : Earlier(p, r), TRUE>>
    ELSE <<>>

(* the '-', '?', '+', '?' lines of the synch pair *)
IntralineMarks(aelt, belt, ops) ==
    _qformat(aelt, belt, TagsFrom(ops, "a"), TagsFrom(ops, "b"))

SyncLines(aelt, belt, identical) ==
    IF identical THEN <<"  " \o aelt>>
    ELSE IntralineMarks(aelt, belt, get_opcodes(ToChars(aelt), ToChars(belt)))

RECURSIVE _fancy_replace(_, _, _, _, _, _)
RECURSIVE _fancy_helper(_, _, _, _, _, _)
RECURSIVE FancyFrom(_, _, _, _, _, _, _)
FancyFrom(a, alo, ahi, b, blo, bhi, sync) ==
    IF sync = <<>>
    THEN _plain_replace(a, alo, ahi, b, blo, bhi)
    ELSE _fancy_helper(a, alo, sync[1][1], b, blo, sync[1][2])
         \o SyncLines(a[sync[1][1] + 1], b[sync[1][2] + 1], sync[2])
         \o _fancy_helper(a, sync[1][1] + 1, ahi, b, sync[1][2] + 1, bhi)

(* M and sync are computed once each, as in the code *)
_fancy_replace(a, alo, ahi, b, blo, bhi) ==
    The({FancyFrom(a, alo, ahi, b, blo, bhi, sync) :
            sync \in {SyncPoint(a, b, M, ClosePairs(a, b, M), EqualPairs(a, b, M)) :
                        M \in {PairMatches(a, alo, ahi, b, blo, bhi)}}})

_fancy_helper(a, alo, ahi, b, blo, bhi) ==
    IF alo < ahi
    THEN IF blo < bhi THEN _fancy_replace(a, alo, ahi, b, blo, bhi)
         ELSE Dump("-", a, alo, ahi)
    ELSE IF blo < bhi THEN Dump("+", b, blo, bhi)
    ELSE <<>>

RECURSIVE CompareOps(_, _, _)
CompareOps(ops, a, b) ==
    IF ops = <<>> THEN <<>>
    ELSE LET op == ops[1]
             g == IF op[1] = "replace" THEN _fancy_replace(a, op[2], op[3], b, op[4], op[5])
                  ELSE IF op[1] = "delete" THEN Dump("-", a, op[2], op[3])
                  ELSE IF op[1] = "insert" THEN Dump("+", b, op[4], op[5])
                  ELSE Dump(" ", a, op[2], op[3])
         IN g \o CompareOps(Tail(ops), a, b)

(* difflib.ndiff(a, b): the delta as a sequence of lines *)
ndiff(a, b) == CompareOps(get_opcodes(a, b), a, b)

(***************************************************************************)
(* get_diff and format_updates_message.                                    *)
(***************************************************************************)
Digits == "0123456789"

(* datetime.now().strftime("%Y-%m-%d %H:%M:%S") at tick t of the clock *)
Timestamp(t) ==
    "2024-01-01 00:00:" \o Char(Digits, ((t \div 10) % 10) + 1) \o Char(Digits, (t % 10) + 1)

SeqSlice(ws, lo, hi) == IF hi <= lo THEN <<>> ELSE SubSeq(ws, lo + 1, hi)

Min(S) == CHOOSE x \in S : \A y \in S : x <= y

Max(S) == CHOOSE x \in S : \A y \in S : x >= y

StartsWith(line, prefix) ==
    Len(line) >= Len(prefix) /\ Slice(line, 0, Len(prefix)) = prefix

(* the positions, in the delta, of the lines that start with '+ ' *)
ChangeIndices(word_diff) ==
    {i \in 0..(Len(word_diff) - 1) : StartsWith(word_diff[i + 1], "+ ")}

RECURSIVE ChangedWords(_)
ChangedWords(word_diff) ==
    IF word_diff = <<>> THEN <<>>
    ELSE (IF StartsWith(word_diff[1], "+ ")
          THEN <<Slice(word_diff[1], 2, Len(word_diff[1]))>> ELSE <<>>)
         \o ChangedWords(Tail(word_diff))

BoldedContext(new_words, change_indices) ==
    LET first_change == Min(change_indices)
        last_change == Max(change_indices)
        context_start == Max({0, first_change - 2})
        context_end == Min({Len(new_words), last_change + 3})
        context == SeqSlice(new_words, context_start, context_end)
    IN [n \in 1..Len(context) |->
          IF (context_start + n - 1) \in change_indices
          THEN "<b>" \o context[n] \o "</b>"
          ELSE context[n]]

(* the Change record of a sentence pair, given its word delta (0 or 1) *)
ChangeRecord(new_words, word_diff, changed_words, now) ==
    IF changed_words = <<>> THEN <<>>
    ELSE <<[change |-> Join(" ", changed_words),
            action |-> "added",
            context |-> Join(" ", BoldedContext(new_words, ChangeIndices(word_diff))),
            time |-> Timestamp(now)]>>

WordChanges(new_words, word_diff, now) ==
    ChangeRecord(new_words, word_diff, ChangedWords(word_diff), now)


(* every new sentence diffed against nothing instead of its old sentence *)
SentenceChangesFromScratch(old_sent, new_sent, now) ==
    WordChanges(SplitWords(new_sent), ndiff(<<>>, SplitWords(new_sent)), now)

(* one old/new sentence pair: the Change records it contributes *)
SentenceChanges(old_sent, new_sent, now) ==
    IF old_sent = new_sent THEN <<>>
    ELSE WordChanges(SplitWords(new_sent),
                     ndiff(SplitWords(old_sent), SplitWords(new_sent)), now)

RECURSIVE ZipChanges(_, _, _)
ZipChanges(old_sentences, new_sentences, now) ==
    IF old_sentences = <<>> \/ new_sentences = <<>> THEN <<>>
    ELSE SentenceChanges(old_sentences[1], new_sentences[1], now)
         \o ZipChanges(Tail(old_sentences), Tail(new_sentences), now)

get_diff(old_text, new_text, now) ==
    ZipChanges(split_sentences(old_text), split_sentences(new_text), now)

UpperChar(c) ==
    IF \E i \in 1..Len(Lowercase) : Char(Lowercase, i) = c
    THEN Char(Upper, CHOOSE i \in 1..Len(Lowercase) : Char(Lowercase, i) = c)
    ELSE c

(* str.title() of a one-word action label *)
Title(action) ==
    IF action = "" THEN ""
    ELSE UpperChar(Char(action, 1)) \o Lower(Slice(action, 1, Len(action)))

RECURSIVE RenderChanges(_)
RenderChanges(changes) ==
    IF changes = <<>> THEN ""
    ELSE LET change == changes[1]
             emoji == IF change.action = "added" THEN "@" ELSE "%"
         IN emoji \o " <b>" \o Title(change.action) \o ":</b> " \o change.change \o "\n"
            \o (IF change.context # ""
                THEN "   <i>Context:</i> " \o change.context \o "\n" ELSE "")
            \o RenderChanges(Tail(changes))

LastFive(updates) == SeqSlice(updates, Max({0, Len(updates) - 5}), Len(updates))

TelegramLimit == 4096

TruncateAt == 4000

TruncationNotice == "\n\n... (message truncated due to length)"

(* the message before the length check of format_updates_message *)
UpdatesRendering(url, updates, new_detected_changes) ==
    "@ <b>Website Changes Detected</b>\n\n<b>URL:</b> " \o url \o "\n\n"
    \o (IF new_detected_changes # <<>>
        THEN "<b>New Changes:</b>\n" \o RenderChanges(new_detected_changes) \o "\n" ELSE "")
    \o (IF updates # <<>>
        THEN "<b>Previous Changes:</b>\n" \o RenderChanges(LastFive(updates)) ELSE "")


(* a message of exactly the limit truncated too *)
TruncateInclusive(message) ==
    IF Len(message) >= TelegramLimit
    THEN Slice(message, 0, TruncateAt) \o TruncationNotice
    ELSE message

Truncate(message) ==
    IF Len(message) > TelegramLimit
    THEN Slice(message, 0, TruncateAt) \o TruncationNotice
    ELSE message

format_updates_message(url, updates, new_detected_changes) ==
    Truncate(UpdatesRendering(url, updates, new_detected_changes))

ShortUpdateMessage(url, now) ==
    "@ <b>Website Changes Detected</b>\n\n"
    \o "<b>URL:</b> " \o url \o "\n"
    \o "<b>Changes detected at:</b> " \o Timestamp(now) \o "\n\n"
    \o "@@ Detailed updates are available but not shown. Enable detailed updates to see them."

RECURSIVE BulletList(_)
BulletList(found_keywords) ==
    IF found_keywords = <<>> THEN ""
    ELSE "@ " \o found_keywords[1]
         \o (IF Len(found_keywords) > 1 THEN "\n" ELSE "")
         \o BulletList(Tail(found_keywords))

KeywordMessage(url, found_keywords, timestamp) ==
    IF Len(found_keywords) = 1
    THEN "@ <b>Keyword Found!</b>\n\n"
         \o "<b>Keyword:</b> " \o found_keywords[1] \o "\n"
         \o "<b>URL:</b> " \o url \o "\n"
         \o "<b>Found at:</b> " \o timestamp
    ELSE "@ <b>Multiple Keywords Found!</b>\n\n"
         \o "<b>Keywords:</b>\n" \o BulletList(found_keywords) \o "\n\n"
         \o "<b>URL:</b> " \o url \o "\n"
         \o "<b>Found at:</b> " \o timestamp

(***************************************************************************)
(* The helpers of process_row.                                             *)
(***************************************************************************)
(* A dict is a function on its keys; new entries override the old ones. *)
EmptyDict == [k \in {} |-> TRUE]

Update(dict, new) == new @@ dict

(* a falsy telegramID (None or "") is the empty string *)
NoRecipient == ""

RECURSIVE LowerAll(_)
LowerAll(ks) == IF ks = <<>> THEN <<>> ELSE <<Lower(ks[1])>> \o LowerAll(Tail(ks))

IsMember(x, xs) == \E n \in 1..Len(xs) : xs[n] = x


(* a remove that leaves the list as it is *)
RemoveKeeps(xs, x) == xs

(* list.remove(x): drops the first occurrence *)
RECURSIVE Remove(_, _)
Remove(xs, x) ==
    IF xs = <<>> THEN <<>>
    ELSE IF xs[1] = x THEN Tail(xs)
    ELSE <<xs[1]>> \o Remove(Tail(xs), x)

(* the loop over keyword_list, from position n, with the lists built so far *)
RECURSIVE KeywordLoop(_, _, _, _, _)
KeywordLoop(keyword_list, n, new_text, now, acc) ==
    IF n > Len(keyword_list) THEN acc
    ELSE LET keyword == keyword_list[n]
         IN IF Contains(keyword, new_text)
            THEN KeywordLoop(keyword_list, n + 1, new_text, now,
                   [new_found |-> Append(acc.new_found,
                                         [keyword |-> keyword, foundAt |-> Timestamp(now)]),
                    found_keywords |-> Append(acc.found_keywords, keyword),
                    remaining_keywords |->
                        IF IsMember(keyword, acc.remaining_keywords)
                        THEN Remove(acc.remaining_keywords, keyword)
                        ELSE acc.remaining_keywords])
            ELSE KeywordLoop(keyword_list, n + 1, new_text, now, acc)

TrackKeywords(keyword_list, new_text, now) ==
    KeywordLoop(keyword_list, 1, new_text, now,
                [new_found |-> <<>>, found_keywords |-> <<>>,
                 remaining_keywords |-> keyword_list])


(* the completed check left out *)
SkipCompletedNever(row) == FALSE

SkipCompleted(row) == row.completed

SkipNoWork(keyword_list, check_updates) == keyword_list = <<>> /\ ~check_updates


(* the reference kept when the fetched text is empty *)
StageReferenceKeepsOnEmpty(new_text, old_reference) ==
    IF new_text # old_reference /\ new_text # "" THEN "reference" :> new_text ELSE EmptyDict

StageReference(new_text, old_reference) ==
    IF new_text # old_reference THEN "reference" :> new_text ELSE EmptyDict

StageKeywords(existing_found, tracked) ==
    ("keywords" :> [keywords |-> tracked.remaining_keywords])
    @@ ("foundKeyword" :> (existing_found \o tracked.new_found))


(* completion staged without looking at shouldContinueCheck *)
StageCompletedIgnoresContinue(remaining_keywords, should_continue_check) ==
    IF remaining_keywords = <<>> THEN "completed" :> TRUE ELSE EmptyDict

(* completion staged without looking at the remaining keywords *)
StageCompletedIgnoresRemaining(remaining_keywords, should_continue_check) ==
    IF ~should_continue_check THEN "completed" :> TRUE ELSE EmptyDict

(* completion staged with the sense of shouldContinueCheck inverted *)
StageCompletedInverted(remaining_keywords, should_continue_check) ==
    IF remaining_keywords = <<>> /\ should_continue_check
    THEN "completed" :> TRUE ELSE EmptyDict

StageCompleted(remaining_keywords, should_continue_check) ==
    IF remaining_keywords = <<>> /\ ~should_continue_check
    THEN "completed" :> TRUE ELSE EmptyDict


(* the change test without the comparison of the text with the reference *)
ChangeDetectedAlways(old_reference, new_text) == Strip(old_reference) # ""

(* the change test without the check for an empty reference *)
ChangeDetectedNoBaseline(old_reference, new_text) == new_text # old_reference

ChangeDetected(old_reference, new_text) ==
    Strip(old_reference) # "" /\ new_text # old_reference


(* the log replaced by this cycle's diff instead of extended *)
ExtendLogReplaces(updates_log, text_diffs) ==
    IF text_diffs # <<>> THEN text_diffs ELSE updates_log

ExtendLog(updates_log, text_diffs) ==
    IF text_diffs # <<>> THEN updates_log \o text_diffs ELSE updates_log

StageUpdates(updates_log) ==
    ("isUpdated" :> TRUE) @@ ("Updates" :> updates_log)


(* an exception of requests.post that leaves send_telegram_notification *)
SendResultPropagates(outcome) == IF outcome = "error" THEN "raised" ELSE outcome

(* the try/except around requests.post: a response other than 200 and an  *)
(* exception are both printed, and the function returns normally          *)
SendResult(outcome) == outcome

(* send_telegram_notification: the call, and what became of it.  outcome  *)
(* is the transport's answer when the request is made.                    *)
send_telegram_notification(env, chat_id, message, is_update, outcome) ==
    LET bot_token == IF is_update THEN env.TELEGRAM_UPDATES_BOT_TOKEN
                     ELSE env.TELEGRAM_BOT_TOKEN
    IN [call |-> "send", chat_id |-> chat_id, text |-> message, is_update |-> is_update,
        result |-> IF ~bot_token \/ chat_id = NoRecipient THEN "not_sent"
                   ELSE SendResult(outcome)]


(* a failed fetch answered with a text that is not empty *)
get_text_from_urlErrorText(fetch) == IF fetch.ok THEN Lower(fetch.body) ELSE "error"

(* get_text_from_url: the lower-cased body text, or "" when the driver raised *)
get_text_from_url(fetch) == IF fetch.ok THEN Lower(fetch.body) ELSE ""


(* the keyword notification made without looking at telegramID *)
NotifyFoundAlways(telegram_id, found_keywords) == found_keywords # <<>>

(* if telegram_id and found_keywords *)
NotifyFound(telegram_id, found_keywords) ==
    telegram_id # NoRecipient /\ found_keywords # <<>>

SkippedRow(why) ==
    [skipped |-> why, fetched |-> FALSE, new_text |-> "",
     text_diffs |-> <<>>, messages |-> <<>>, update_data |-> EmptyDict]

(* process_row from the keyword loop on, given the text fetched and, when *)
(* a change was detected, its diff                                        *)
CheckedRow(row, keyword_list, new_text, now, tracked, changed, text_diffs) ==
    LET url == row.url
        telegram_id == row.telegramID
        notify_found == NotifyFound(telegram_id, tracked.found_keywords)
        keyword_data ==
            IF keyword_list # <<>>
            THEN Update(StageKeywords(row.foundKeyword, tracked),
                        StageCompleted(tracked.remaining_keywords, row.shouldContinueCheck))
            ELSE EmptyDict
        updates_log == ExtendLog(row.Updates, text_diffs)
        update_message ==
            IF row.shouldSendDetailedUpdates
            THEN format_updates_message(url, updates_log, text_diffs)
            ELSE ShortUpdateMessage(url, now)
    IN [skipped |-> "no", fetched |-> TRUE, new_text |-> new_text,
        text_diffs |-> text_diffs,
        messages |->
           (IF notify_found
            THEN <<[chat_id |-> telegram_id, is_update |-> FALSE,
                    text |-> KeywordMessage(url, tracked.found_keywords,
                                            Timestamp(now))]>>
            ELSE <<>>)
           \o (IF changed /\ telegram_id # NoRecipient
               THEN <<[chat_id |-> telegram_id, is_update |-> TRUE,
                       text |-> update_message]>>
               ELSE <<>>),
        update_data |->
           Update(Update(StageReference(new_text, row.reference), keyword_data),
                  IF changed THEN StageUpdates(updates_log) ELSE EmptyDict)]

DiffIf(changed, old_reference, new_text, now) ==
    IF changed THEN get_diff(old_reference, new_text, now) ELSE <<>>

FetchedRow(row, keyword_list, new_text, now, changed) ==
    CheckedRow(row, keyword_list, new_text, now,
               TrackKeywords(keyword_list, new_text, now), changed,
               DiffIf(changed, row.reference, new_text, now))

FetchRow(row, keyword_list, new_text, now) ==
    FetchedRow(row, keyword_list, new_text, now,
               row.checkUpdates /\ ChangeDetected(row.reference, new_text))

(* process_row up to the notifications: the text fetched, the diff and    *)
(* update_data, and the messages it hands to send_telegram_notification.  *)
process_row(row, fetch, now) ==
    IF SkipCompleted(row) THEN SkippedRow("completed")
    ELSE IF SkipNoWork(LowerAll(row.keywords.keywords), row.checkUpdates)
    THEN SkippedRow("no_work")
    ELSE FetchRow(row, LowerAll(row.keywords.keywords), get_text_from_url(fetch), now)

(* the calls of send_telegram_notification, in order; outcomes[n] is the  *)
(* transport's answer to the n-th of them                                 *)
SendAll(env, messages, outcomes) ==
    [n \in 1..Len(messages) |->
        send_telegram_notification(env, messages[n].chat_id, messages[n].text,
                                   messages[n].is_update, outcomes[n])]

(***************************************************************************)
(* STATE: the table, the environment and the position of main().           *)
(***************************************************************************)
VARIABLES
    store,      \* the ezynotify table: id -> row
    env,        \* which bot tokens the environment defines
    pc,         \* "idle": main() is not running; "loop": inside its for loop
    rows,       \* response.data of the last select
    idx,        \* the position of the for loop in rows (1-based)
    processed,  \* ids handed to process_row since the last select, in order
    cycle,      \* how many times main() was started
    clock,      \* the wall clock, in ticks
    last,       \* what the most recent process_row call did
    probe       \* a direct call of get_diff or format_updates_message

vars == <<store, env, pc, rows, idx, processed, cycle, clock, last, probe>>

Ids == {1, 2}

ShortUrl(id) == IF id = 1 THEN "http://a.io" ELSE "http://b.io"

LongUrl == "http://a.io/" \o Rep("u", LongUrlLen - 12)

(* what the site behind a URL may show in its body *)
Bodies(url) ==
    IF url = ShortUrl(2) THEN {"Hello there"}
    ELSE {"Big SALE today. see you", "old offer. New sale now"}

Fetches(url) ==
    {[ok |-> TRUE, body |-> b] : b \in Bodies(url)} \cup {[ok |-> FALSE, body |-> ""]}

SendOutcomes == {"ok", "rejected", "error"}

Row(id, url, keywords, reference, telegramID, detailed, check, continue, completed) ==
    [id |-> id, url |-> url, keywords |-> [keywords |-> keywords],
     telegramID |-> telegramID, reference |-> reference, isUpdated |-> FALSE,
     foundKeyword |-> <<>>, shouldContinueCheck |-> continue, Updates |-> <<>>,
     shouldSendDetailedUpdates |-> detailed, checkUpdates |-> check,
     completed |-> completed]

NoProbe == [op |-> "none", old_text |-> "", new_text |-> "", url |-> "",
            updates |-> <<>>, new_detected_changes |-> <<>>, now |-> 0,
            returned |-> FALSE, changes |-> <<>>, message |-> ""]

NoCall == [id |-> 0, before |-> <<>>, skipped |-> "none", fetched |-> FALSE,
           fetch_ok |-> FALSE, events |-> <<>>,
           new_text |-> "", text_diffs |-> <<>>, sends |-> <<>>,
           update_data |-> EmptyDict, write |-> "none", now |-> 0]

TypeOK ==
    /\ DOMAIN store = Ids
    /\ pc \in {"idle", "loop"}
    /\ idx \in 1..(Cardinality(Ids) + 1)
    /\ cycle \in 0..MaxCycles
    /\ last.write \in {"none", "ok", "failed"}

(* the rows a first resource may start from *)
FirstRows ==
    {Row(1, ShortUrl(1), ks, ref, tg, det, chk, cont, FALSE) :
        ks \in {<<>>, <<"Sale", "new", "sale">>},
        ref \in {"", "old offer. see you"},
        tg \in {NoRecipient, "42"},
        det \in {TRUE}, chk \in BOOLEAN, cont \in BOOLEAN}

(* the rows a second resource may start from: its reference is blank and  *)
(* it has no recipient                                                     *)
SecondRows ==
    {Row(2, ShortUrl(2), <<"hello">>, " ", NoRecipient, FALSE, TRUE, FALSE, FALSE)}

(* both bot tokens are configured, or neither is *)
Envs == {[TELEGRAM_BOT_TOKEN |-> b, TELEGRAM_UPDATES_BOT_TOKEN |-> b] : b \in BOOLEAN}

InitWith(first, second, envs) ==
    /\ store \in {[id \in Ids |-> IF id = 1 THEN r1 ELSE r2] : r1 \in first, r2 \in second}
    /\ env \in envs
    /\ pc = "idle"
    /\ rows = <<>>
    /\ idx = 1
    /\ processed = <<>>
    /\ cycle = 0
    /\ clock = 0
    /\ last = NoCall
    /\ probe = NoProbe

Init == InitWith(FirstRows, SecondRows, Envs)

(* main(): the select succeeds; response.data is the table in id order *)
ListRows ==
    /\ pc = "idle"
    /\ cycle < MaxCycles
    /\ rows' = [n \in 1..Cardinality(Ids) |-> store[n]]
    /\ pc' = "loop"
    /\ idx' = 1
    /\ processed' = <<>>
    /\ cycle' = cycle + 1
    /\ UNCHANGED <<store, env, clock, last, probe>>


(* the exception of the select leaving main(): the process is down *)
ListFailsEscapes ==
    /\ pc = "idle"
    /\ cycle < MaxCycles
    /\ rows' = <<>>
    /\ processed' = <<>>
    /\ cycle' = cycle + 1
    /\ pc' = "down"
    /\ UNCHANGED <<store, env, idx, clock, last, probe>>

(* main(): the select raises; the except clause logs and main returns *)
ListFails ==
    /\ pc = "idle"
    /\ cycle < MaxCycles
    /\ rows' = <<>>
    /\ processed' = <<>>
    /\ cycle' = cycle + 1
    /\ UNCHANGED <<store, env, pc, idx, clock, last, probe>>


(* the store call made before the notifications *)
EventsWriteFirst(fetched, messages, writes) ==
    (IF fetched THEN <<"fetch">> ELSE <<>>)
    \o (IF writes THEN <<"write">> ELSE <<>>)
    \o [n \in 1..Len(messages) |->
           IF messages[n].is_update THEN "update_send" ELSE "keyword_send"]

(* the calls process_row makes to the outside, in the order of the code:  *)
(* get_text_from_url, then send_telegram_notification for the messages in *)
(* the order they are built, then the store call                          *)
Events(fetched, messages, writes) ==
    (IF fetched THEN <<"fetch">> ELSE <<>>)
    \o [n \in 1..Len(messages) |->
           IF messages[n].is_update THEN "update_send" ELSE "keyword_send"]
    \o (IF writes THEN <<"write">> ELSE <<>>)

(* supabase ... update(update_data).eq("id", row_id).execute() *)
WriteRow(row, update_data) ==
    [f \in DOMAIN row |-> IF f \in DOMAIN update_data THEN update_data[f] ELSE row[f]]

(* One turn of the for loop of main(): process_row(row) and time.sleep(1). *)
(* The store call is made only when update_data is not empty; when it      *)
(* raises, the exception leaves process_row and the loop and is caught by  *)
(* the except clause of main().  So would an exception leaving             *)
(* send_telegram_notification, before the store call is reached.           *)
ProcessRow ==
    /\ pc = "loop"
    /\ idx <= Len(rows)
    /\ \E fetch \in Fetches(rows[idx].url), store_ok \in BOOLEAN :
       \E r \in {process_row(rows[idx], fetch, clock)} :
       \E outcomes \in [1..Len(r.messages) -> SendOutcomes] :
          LET row == rows[idx]
              sends == SendAll(env, r.messages, outcomes)
              send_raised == \E n \in 1..Len(sends) : sends[n].result = "raised"
              writes == DOMAIN r.update_data # {} /\ ~send_raised
              raised == send_raised \/ (writes /\ ~store_ok)
          IN /\ store' = IF writes /\ store_ok
                         THEN [store EXCEPT ![row.id] = WriteRow(@, r.update_data)]
                         ELSE store
             /\ last' = [id |-> row.id, before |-> store[row.id],
                         skipped |-> r.skipped, fetched |-> r.fetched,
                         fetch_ok |-> r.fetched /\ fetch.ok,
                         events |-> Events(r.fetched, r.messages, writes),
                         new_text |-> r.new_text, text_diffs |-> r.text_diffs,
                         sends |-> sends,
                         update_data |-> r.update_data,
                         write |-> IF ~writes THEN "none"
                                   ELSE IF store_ok THEN "ok" ELSE "failed",
                         now |-> clock]
             /\ processed' = Append(processed, row.id)
             /\ pc' = IF raised \/ idx = Len(rows) THEN "idle" ELSE "loop"
             /\ idx' = IF raised THEN idx ELSE idx + 1
    /\ clock' = clock + 1
    /\ UNCHANGED <<env, rows, cycle, probe>>

Next == ListRows \/ ListFails \/ ProcessRow

Spec == Init /\ [][Next]_vars

(* The same program started on a resource whose URL is LongUrlLen long. *)
LongRows ==
    {Row(1, LongUrl, <<"Sale", "new", "sale">>, ref, "42", det, TRUE, FALSE, FALSE) :
        ref \in {"", "old offer. see you"}, det \in BOOLEAN}

InitLong == InitWith(LongRows, SecondRows, Envs)

SpecLong == InitLong /\ [][Next]_vars

(***************************************************************************)
(* get_diff and format_updates_message called directly, as process_row     *)
(* calls them: on two texts, and on a URL, an update log that ends with    *)
(* this cycle's Change records, and those records.                         *)
(***************************************************************************)
Sentences ==
    {"the price is 10 dollars.", "the price is 15 dollars now.",
     "big sale today!", "see you"}

Texts == {Join(" ", ss) : ss \in UNION {[1..k -> Sentences] : k \in 0..MaxSentences}}

DiffProbes ==
    {[NoProbe EXCEPT !.op = "get_diff", !.old_text = o, !.new_text = n] :
        o \in Texts, n \in Texts}

(* the Change record of the cycle at tick t *)
SampleChange(t) ==
    get_diff("the price is 10 dollars.", "the price is 15 dollars now.", t)

(* the log of earlier cycles *)
SampleLogs == {<<>>, SampleChange(1), [t \in 1..5 |-> SampleChange(t)[1]]}

SampleChanges == {<<>>, SampleChange(7)}

(* a short URL, and the URLs whose rendering is within Slack of the limit *)
UrlLens(updates, new_detected_changes) ==
    {11} \cup {TelegramLimit - Len(UpdatesRendering("", updates, new_detected_changes)) + d :
                 d \in (0 - Slack)..Slack}

FormatProbes ==
    UNION {{[NoProbe EXCEPT !.op = "format_updates_message", !.url = Rep("u", n),
                            !.updates = log \o new, !.new_detected_changes = new] :
               n \in UrlLens(log \o new, new)} :
           log \in SampleLogs, new \in SampleChanges}

InitPure ==
    /\ store = [id \in Ids |->
                  Row(id, ShortUrl(id), <<>>, "", NoRecipient, FALSE, FALSE, FALSE, FALSE)]
    /\ env = [TELEGRAM_BOT_TOKEN |-> FALSE, TELEGRAM_UPDATES_BOT_TOKEN |-> FALSE]
    /\ pc = "idle"
    /\ rows = <<>>
    /\ idx = 1
    /\ processed = <<>>
    /\ cycle = 0
    /\ clock = 0
    /\ last = NoCall
    /\ probe \in DiffProbes \cup FormatProbes

GetDiff ==
    /\ probe.op = "get_diff"
    /\ ~probe.returned
    /\ probe' = [probe EXCEPT !.returned = TRUE,
                              !.changes = get_diff(probe.old_text, probe.new_text, probe.now)]
    /\ UNCHANGED <<store, env, pc, rows, idx, processed, cycle, clock, last>>

FormatUpdates ==
    /\ probe.op = "format_updates_message"
    /\ ~probe.returned
    /\ probe' = [probe EXCEPT !.returned = TRUE,
                              !.message = format_updates_message(
                                  probe.url, probe.updates, probe.new_detected_changes)]
    /\ UNCHANGED <<store, env, pc, rows, idx, processed, cycle, clock, last>>

NextPure == GetDiff \/ FormatUpdates

SpecPure == InitPure /\ [][NextPure]_vars

(***************************************************************************)
(* Properties.                                                             *)
(***************************************************************************)
Pending(row) == LowerAll(row.keywords.keywords)

PendingSet(row) == {Pending(row)[n] : n \in 1..Len(Pending(row))}

FoundSet(row) == {row.foundKeyword[n].keyword : n \in 1..Len(row.foundKeyword)}

IsPrefix(xs, ys) == Len(xs) <= Len(ys) /\ SubSeq(ys, 1, Len(xs)) = xs

Called == last.id # 0

After == store[last.id]

Staged(field) == field \in DOMAIN last.update_data

NoneFound == \A k \in PendingSet(last.before) : ~Contains(k, last.new_text)

AllFound == \A k \in PendingSet(last.before) : Contains(k, last.new_text)

KeywordSends == {n \in 1..Len(last.sends) : ~last.sends[n].is_update}

UpdateSends == {n \in 1..Len(last.sends) : last.sends[n].is_update}

(* C1: when the store write of one resource fails, the resources after it *)
(* in the listing are still processed in that cycle: whenever main() has  *)
(* returned, every listed resource was handed to process_row.             *)
C1_StoreFailureContained ==
    (pc = "idle" /\ rows # <<>>) =>
        processed = [n \in 1..Len(rows) |-> rows[n].id]

(* C2: every message handed to send_telegram_notification, keyword-found  *)
(* or update, detailed or short, is at most 4096 characters long.         *)
C2_MessagesWithinLimit ==
    \A n \in 1..Len(last.sends) : Len(last.sends[n].text) <= TelegramLimit

(* C3: completed goes from false to true only in a step that started with *)
(* pending keywords, leaves none pending and has shouldContinueCheck      *)
(* false; it never goes from true to false, and no call stages            *)
(* completed = false.                                                     *)
C3_CompletedMonotonic ==
    /\ [](Staged("completed") => last.update_data["completed"] = TRUE)
    /\ [][\A id \in Ids :
            /\ store[id].completed => store'[id].completed
            /\ (~store[id].completed /\ store'[id].completed) =>
                  /\ Pending(store[id]) # <<>>
                  /\ store'[id].keywords.keywords = <<>>
                  /\ ~store[id].shouldContinueCheck]_vars

C3_Witness ==
    /\ Called
    /\ ~last.before.completed
    /\ After.completed

(* C4: in every stored record the pending keywords and the keywords of    *)
(* the foundKeyword entries are disjoint.                                 *)
C4_PendingFoundDisjoint ==
    \A id \in Ids : PendingSet(store[id]) \cap FoundSet(store[id]) = {}

C4_Witness ==
    \E id \in Ids : PendingSet(store[id]) # {} /\ FoundSet(store[id]) # {}

(* C5: a keyword recorded as found is never pending after any later step, *)
(* and foundKeyword never holds two entries for the same keyword.         *)
C5_FoundOnce ==
    /\ [](\A id \in Ids : \A m, n \in 1..Len(store[id].foundKeyword) :
            m # n => store[id].foundKeyword[m].keyword # store[id].foundKeyword[n].keyword)
    /\ [][\A id \in Ids : FoundSet(store[id]) \cap PendingSet(store'[id]) = {}]_vars

(* C6: when no pending keyword occurs in the fetched text, the pending    *)
(* keywords stay as they were, nothing is appended to foundKeyword, no    *)
(* keyword-found notification is sent and completed is not staged.        *)
C6_NothingFoundFrame ==
    (Called /\ last.fetched /\ NoneFound) =>
        /\ Staged("keywords") =>
              last.update_data["keywords"].keywords = Pending(last.before)
        /\ Staged("foundKeyword") =>
              last.update_data["foundKeyword"] = last.before.foundKeyword
        /\ ~Staged("completed")
        /\ KeywordSends = {}
        /\ Pending(After) = Pending(last.before)
        /\ After.foundKeyword = last.before.foundKeyword
        /\ After.completed = last.before.completed

C6_Witness ==
    /\ Called
    /\ last.fetched
    /\ Pending(last.before) # <<>>
    /\ last.new_text # ""
    /\ NoneFound
    /\ last.write = "ok"

(* C7: with checkUpdates true and an empty reference, a cycle produces no *)
(* Change record: Updates and isUpdated are not staged, no update         *)
(* notification is sent, and reference is staged, to the fetched text,    *)
(* exactly when that text is not empty.                                   *)
C7_NoBaselineNoChange ==
    (Called /\ last.fetched /\ last.before.checkUpdates /\ last.before.reference = "") =>
        /\ last.text_diffs = <<>>
        /\ ~Staged("Updates")
        /\ ~Staged("isUpdated")
        /\ UpdateSends = {}
        /\ Staged("reference") <=> last.new_text # ""
        /\ Staged("reference") => last.update_data["reference"] = last.new_text
        /\ After.Updates = last.before.Updates
        /\ After.isUpdated = last.before.isUpdated

C7_Witness ==
    /\ Called
    /\ last.fetched
    /\ last.before.checkUpdates
    /\ last.before.reference = ""
    /\ last.new_text # ""
    /\ last.write = "ok"
    /\ After.reference = last.new_text

(* C8: a resource that is skipped, because it is completed or because it  *)
(* has no pending keyword and checkUpdates is false, is not fetched,      *)
(* causes no notification and no store write, and its record stays as it  *)
(* was; a completed record never changes in any later step.               *)
C8_SkippedNoEffect ==
    /\ []((Called /\ (last.before.completed
                      \/ (Pending(last.before) = <<>> /\ ~last.before.checkUpdates))) =>
            /\ ~last.fetched
            /\ last.sends = <<>>
            /\ last.write = "none"
            /\ DOMAIN last.update_data = {}
            /\ After = last.before)
    /\ [][\A id \in Ids : store[id].completed => store'[id] = store[id]]_vars

C8_Witness ==
    /\ last.id = 1
    /\ last.skipped = "completed"
    /\ cycle = 2

(* C9: Updates only grows: in every step the stored log is a prefix of    *)
(* the log after the step, and a call that writes Updates writes the      *)
(* previous log followed by the Change records of that call's diff of the *)
(* previous reference against the fetched text, in sentence order.        *)
C9_UpdateLogAppendOnly ==
    /\ []((Called /\ Staged("Updates")) =>
            /\ last.update_data["Updates"] = last.before.Updates \o last.text_diffs
            /\ last.text_diffs =
                  get_diff(last.before.reference, last.new_text, last.now)
            /\ last.write = "ok" => After.Updates = last.before.Updates \o last.text_diffs)
    /\ [][\A id \in Ids : IsPrefix(store[id].Updates, store'[id].Updates)]_vars

C9_Witness ==
    /\ Called
    /\ last.write = "ok"
    /\ Staged("Updates")
    /\ last.before.Updates # <<>>
    /\ Len(last.text_diffs) > 1

NewEntries(keywords, now) ==
    [n \in 1..Len(keywords) |-> [keyword |-> keywords[n], foundAt |-> Timestamp(now)]]

AllFoundCase ==
    /\ Called
    /\ ~last.before.completed
    /\ Pending(last.before) # <<>>
    /\ ~last.before.shouldContinueCheck
    /\ AllFound

AllFoundPersisted ==
    /\ After.keywords.keywords = <<>>
    /\ After.foundKeyword =
          last.before.foundKeyword \o NewEntries(Pending(last.before), last.now)
    /\ After.completed = TRUE

DiffReturned == probe.op = "get_diff" /\ probe.returned

OldSentences == split_sentences(probe.old_text)

NewSentences == split_sentences(probe.new_text)

(* the positions at which both texts have a sentence and the two differ *)
DifferingPairs ==
    {n \in 1..Min({Len(OldSentences), Len(NewSentences)}) :
        OldSentences[n] # NewSentences[n]}

(* C11: get_diff(T, T) is empty for every text T; the result holds no     *)
(* Change when no paired sentences differ, and never more Change records  *)
(* than there are positions at which the paired sentences differ.         *)
C11_SameTextNoChange ==
    DiffReturned =>
        /\ probe.old_text = probe.new_text => probe.changes = <<>>
        /\ DifferingPairs = {} => probe.changes = <<>>
        /\ Len(probe.changes) <= Cardinality(DifferingPairs)

C11_Witness ==
    /\ DiffReturned
    /\ probe.old_text = probe.new_text
    /\ Len(NewSentences) = 2
    /\ probe.changes = <<>>
(* C12: a cycle whose listing of the rows fails ends at once: no row is   *)
(* handed to process_row (nothing is fetched, sent or written, the store  *)
(* and the clock stay as they were), main() returns normally, and the     *)
(* next cycle can start as long as cycles remain.                         *)
C12_ListingFailureEndsCycle ==
    /\ [][(cycle' = cycle + 1 /\ rows' = <<>>) =>
            /\ pc' = "idle"
            /\ processed' = <<>>
            /\ store' = store
            /\ last' = last
            /\ clock' = clock]_vars
    /\ []((rows = <<>> /\ cycle > 0 /\ cycle < MaxCycles) => ENABLED ListRows)

(* the first cycle failed to list, the second processed both rows *)
C12_Witness ==
    /\ cycle = 2
    /\ pc = "idle"
    /\ clock = 2
    /\ processed = <<1, 2>>
FailedSends == {n \in 1..Len(last.sends) : last.sends[n].result # "ok"}

(* C13: a notification that fails (no token, no recipient, a response     *)
(* other than 200, a transport error) does not end the cycle: each        *)
(* message is handed to send_telegram_notification once, update_data is   *)
(* what the row, the fetched text and the time determine, whatever the    *)
(* sends did, the store call is made exactly when update_data is not      *)
(* empty, and unless that call fails the loop moves on to the next row.   *)
C13_SendFailureContained ==
    /\ []((Called /\ last.fetched) =>
            /\ Cardinality(KeywordSends) <= 1
            /\ Cardinality(UpdateSends) <= 1
            /\ \A n \in 1..Len(last.sends) :
                  last.sends[n].result \in {"ok", "rejected", "error", "not_sent"}
            /\ last.update_data =
                  FetchRow(last.before, Pending(last.before), last.new_text,
                           last.now).update_data
            /\ last.write # "none" <=> DOMAIN last.update_data # {}
            /\ last.write = "ok" => After = WriteRow(last.before, last.update_data))
    /\ [][(clock' = clock + 1 /\ last'.write # "failed") =>
            /\ idx' = idx + 1
            /\ pc' = IF idx < Len(rows) THEN "loop" ELSE "idle"]_vars

(* a transport error on the first row, its fields written, the loop going on *)
C13_Witness ==
    /\ last.id = 1
    /\ \E n \in FailedSends : last.sends[n].result = "error"
    /\ last.write = "ok"
    /\ After = WriteRow(last.before, last.update_data)
    /\ pc = "loop"
    /\ idx = 2
(* the row with its recipient removed if it has one, set if it has none *)
OtherRecipient(row) ==
    [row EXCEPT !.telegramID = IF @ = NoRecipient THEN "42" ELSE NoRecipient]

(* what process_row stages for the row of the last call with the other    *)
(* recipient setting, on the same fetched text at the same time           *)
StagedWithOtherRecipient ==
    FetchRow(OtherRecipient(last.before), Pending(last.before),
             last.new_text, last.now).update_data

(* C14: telegramID decides the notifications only: the call stages the    *)
(* same fields with the same values as a call on the same row and text    *)
(* that differs only in whether the recipient is set, and a call on a row *)
(* without recipient hands no message to send_telegram_notification.      *)
C14_RecipientOnlyGatesSends ==
    (Called /\ last.fetched) =>
        /\ StagedWithOtherRecipient = last.update_data
        /\ last.before.telegramID = NoRecipient => last.sends = <<>>

(* no recipient, and a keyword found and a change detected all the same *)
C14_Witness ==
    /\ Called
    /\ last.fetched
    /\ last.before.telegramID = NoRecipient
    /\ last.sends = <<>>
    /\ Staged("isUpdated")
    /\ Staged("foundKeyword")
    /\ last.update_data["foundKeyword"] # last.before.foundKeyword
(* the positions, in the new sentence's word list, of the words that the  *)
(* delta marks '+ ': a '+ ' or '  ' line stands for one new word, a '- '  *)
(* or '? ' line for none                                                  *)
RECURSIVE InsertedIndices(_, _, _)
InsertedIndices(word_diff, n, pos) ==
    IF n > Len(word_diff) THEN {}
    ELSE IF StartsWith(word_diff[n], "+ ")
    THEN {pos} \cup InsertedIndices(word_diff, n + 1, pos + 1)
    ELSE IF StartsWith(word_diff[n], "  ")
    THEN InsertedIndices(word_diff, n + 1, pos + 1)
    ELSE InsertedIndices(word_diff, n + 1, pos)

(* the window [max(0, first - 2), min(len(new), last + 3)) of the new     *)
(* words around the inserted ones, the inserted ones in bold              *)
ContextByNewIndex(old_sent, new_sent) ==
    Join(" ", BoldedContext(SplitWords(new_sent),
                            InsertedIndices(ndiff(SplitWords(old_sent), SplitWords(new_sent)),
                                            1, 0)))

(* C15: for a pair of one-sentence texts with an inserted word, the       *)
(* context of the Change is the window of the new sentence's words from   *)
(* two before the first inserted word to two after the last, counted in   *)
(* the new sentence's word list, with exactly the inserted words in bold. *)
C15_ContextByNewIndex ==
    (DiffReturned /\ Len(OldSentences) = 1 /\ Len(NewSentences) = 1
                  /\ probe.changes # <<>>) =>
        probe.changes[1].context = ContextByNewIndex(OldSentences[1], NewSentences[1])
(* the diff was run on the previous reference and the fetched text, its   *)
(* Change records were appended to the log, isUpdated = True is staged,   *)
(* and the update notification was made once if there is a recipient      *)
ChangeRegistered ==
    /\ last.text_diffs = get_diff(last.before.reference, last.new_text, last.now)
    /\ Staged("Updates")
    /\ last.update_data["Updates"] = last.before.Updates \o last.text_diffs
    /\ Staged("isUpdated")
    /\ last.update_data["isUpdated"] = TRUE
    /\ Cardinality(UpdateSends) = IF last.before.telegramID # NoRecipient THEN 1 ELSE 0

NothingRegistered ==
    /\ last.text_diffs = <<>>
    /\ ~Staged("Updates")
    /\ ~Staged("isUpdated")
    /\ UpdateSends = {}

(* C16 as stated: a call that fetched registers a change exactly when     *)
(* checkUpdates is set, the previous reference is not the empty string    *)
(* and the fetched text differs from it.                                  *)
C16_ChangeRegistered ==
    (Called /\ last.fetched) =>
        IF /\ last.before.checkUpdates
           /\ last.before.reference # ""
           /\ last.new_text # last.before.reference
        THEN ChangeRegistered
        ELSE NothingRegistered

(* C16 amended: the same, with a previous reference that is not blank,    *)
(* i.e. not empty once its surrounding white space is stripped.           *)
C16_ChangeRegisteredNotBlank ==
    (Called /\ last.fetched) =>
        IF /\ last.before.checkUpdates
           /\ Strip(last.before.reference) # ""
           /\ last.new_text # last.before.reference
        THEN ChangeRegistered
        ELSE NothingRegistered

(* a change that produced no Change record, registered and notified *)
C16_Witness ==
    /\ Called
    /\ last.fetched
    /\ last.before.checkUpdates
    /\ Strip(last.before.reference) # ""
    /\ last.new_text # last.before.reference
    /\ last.text_diffs = <<>>
    /\ Staged("isUpdated")
    /\ Cardinality(UpdateSends) = 1
FetchFailed == Called /\ last.fetched /\ ~last.fetch_ok

(* the call went through the keyword loop, the change test and the store  *)
(* call with the empty string as the fetched text                         *)
ProcessedAsEmptyText ==
    /\ last.new_text = ""
    /\ last.update_data =
          FetchRow(last.before, Pending(last.before), "", last.now).update_data
    /\ last.write # "none" <=> DOMAIN last.update_data # {}
    /\ last.before.reference # "" =>
          Staged("reference") /\ last.update_data["reference"] = ""

RegisteredAsChanged ==
    /\ Staged("isUpdated")
    /\ Staged("Updates")
    /\ Cardinality(UpdateSends) = IF last.before.telegramID # NoRecipient THEN 1 ELSE 0

(* the loop goes on to the next row after a failed fetch, unless the      *)
(* store call of that row fails                                           *)
FetchFailureGoesOn ==
    [][(clock' = clock + 1 /\ ~last'.fetch_ok /\ last'.fetched
                           /\ last'.write # "failed") =>
          /\ idx' = idx + 1
          /\ pc' = IF idx < Len(rows) THEN "loop" ELSE "idle"]_vars

(* C17 as stated: a failed fetch is processed as the empty text and does  *)
(* not end the cycle; a row with a non-empty reference gets reference     *)
(* staged to "" and, with checkUpdates set, is registered as changed.     *)
C17_FetchFailureAsEmptyText ==
    /\ [](FetchFailed =>
            /\ ProcessedAsEmptyText
            /\ (last.before.checkUpdates /\ last.before.reference # "") =>
                  RegisteredAsChanged)
    /\ FetchFailureGoesOn

(* C17 amended: the same, registered as changed when the reference is not *)
(* blank, i.e. not empty once its surrounding white space is stripped.    *)
C17_FetchFailureAsEmptyTextNotBlank ==
    /\ [](FetchFailed =>
            /\ ProcessedAsEmptyText
            /\ (last.before.checkUpdates /\ Strip(last.before.reference) # "") =>
                  RegisteredAsChanged)
    /\ FetchFailureGoesOn

(* a failed fetch on the first row: reference emptied, the change         *)
(* registered and notified, the fields written and the loop going on      *)
C17_Witness ==
    /\ FetchFailed
    /\ last.id = 1
    /\ last.before.checkUpdates
    /\ Strip(last.before.reference) # ""
    /\ last.before.telegramID # NoRecipient
    /\ RegisteredAsChanged
    /\ last.write = "ok"
    /\ After.reference = ""
    /\ pc = "loop"
EventRank(e) ==
    CASE e = "fetch" -> 1
      [] e = "keyword_send" -> 2
      [] e = "update_send" -> 3
      [] e = "write" -> 4

(* C18: the outside calls of one process_row call come in the order       *)
(* fetch, keyword notification, update notification, store call, each at  *)
(* most once: the fetch is first and the store call, if made, is last;    *)
(* and the rows are processed one after the other in the order listed, so *)
(* no call for a later row comes before them.                             *)
C18_EventsOrdered ==
    /\ \A m, n \in 1..Len(last.events) :
          m < n => EventRank(last.events[m]) < EventRank(last.events[n])
    /\ (Called /\ last.fetched) => last.events[1] = "fetch"
    /\ last.write # "none" => last.events[Len(last.events)] = "write"
    /\ rows # <<>> =>
          /\ IsPrefix(processed, [n \in 1..Len(rows) |-> rows[n].id])
          /\ processed # <<>> => last.id = processed[Len(processed)]

(* all four calls made for the first row, the second row not yet started *)
C18_Witness ==
    /\ last.id = 1
    /\ last.events = <<"fetch", "keyword_send", "update_send", "write">>
    /\ processed = <<1>>
    /\ pc = "loop"
FormatReturned == probe.op = "format_updates_message" /\ probe.returned

(* the message before the length check: the header, this cycle's Change   *)
(* records, then the entries of the log                                   *)
Rendering == UpdatesRendering(probe.url, probe.updates, probe.new_detected_changes)

(* C19: the detailed update message shows no more than the last five      *)
(* entries of the log; when its rendering is longer than 4096 characters  *)
(* the result is the first 4000 characters of the rendering followed by   *)
(* the truncation notice, and is at most 4096 long; when the rendering is *)
(* 4096 characters or shorter the result is the rendering.                *)
C19_TruncatedAtLimit ==
    FormatReturned =>
        /\ Rendering =
              UpdatesRendering(probe.url, LastFive(probe.updates), probe.new_detected_changes)
        /\ Len(Rendering) > 4096 =>
              /\ probe.message = SubSeq(Rendering, 1, 4000) \o TruncationNotice
              /\ Len(probe.message) <= 4096
        /\ Len(Rendering) <= 4096 => probe.message = Rendering

(* a rendering one character over the limit, of a log of six entries *)
C19_Witness ==
    /\ FormatReturned
    /\ Len(probe.updates) = 6
    /\ probe.new_detected_changes # <<>>
    /\ Len(Rendering) = 4097
    /\ Len(probe.message) = 4000 + Len(TruncationNotice)
(* a call that fetched the page of a row whose stored reference is empty *)
BaselineCycle == Called /\ last.fetch_ok /\ last.before.reference = ""

(* no Change record is appended, nothing of the update is staged or sent, *)
(* and once written the fetched text is the reference of the next cycle   *)
BaselineOnly ==
    /\ last.text_diffs = <<>>
    /\ ~Staged("Updates")
    /\ ~Staged("isUpdated")
    /\ UpdateSends = {}
    /\ After.Updates = last.before.Updates
    /\ last.write = "ok" => After.reference = last.new_text

=============================================================================
